---- MODULE Spec2Model ----
(***************************************************************************)
(* A model of appscale/tools/admin_api/version.py: the alternative         *)
(* constructors of the Admin API Version resource (from_yaml, from_xml,    *)
(* from_contents, from_yaml_file, from_tar_gz, from_zip).                  *)
(*                                                                         *)
(* One entry point is run per behaviour.  The translators are single steps *)
(* (they touch no shared state); the archive and file entry points are     *)
(* split at every operation that acquires or releases a handle.            *)
(*                                                                         *)
(* Python values are records [t, i, s]: t is the type tag, i the integer   *)
(* payload (ints and bools) and s the characters of a str.  A dictionary   *)
(* is a function whose DOMAIN is its key set.  The outcome of a call is a  *)
(* record: a returned Version, or a raised exception with its class and    *)
(* message.                                                                *)
(*                                                                         *)
(* Lines 117-118 and 213-214 of the source break an assignment after the   *)
(* "=" sign; they are read as the single statement they spell.             *)
(* env_variables, inbound_services, project_id and the Handler objects are *)
(* copied through by the code and are not represented.                     *)
(***************************************************************************)
EXTENDS Integers, Sequences, FiniteSets, TLC

VARIABLES
  call,             \* the entry point being run ("none" before the call)
  pc,               \* position inside the entry point
  app_yaml,         \* argument of from_yaml / document loaded by safe_load
  root,             \* argument of from_xml
  contents,         \* bytes handed to from_contents
  file_name,        \* format tag handed to from_contents
  name_list,        \* member names of the archive
  config_location,  \* member chosen by shortest_path_from_list
  handles,          \* handles currently open
  opened,           \* every handle that was ever opened during the call
  dispatched,       \* file name from_contents was called with ("" if not)
  result            \* outcome of the call

vars == <<call, pc, app_yaml, root, contents, file_name, name_list,
          config_location, handles, opened, dispatched, result>>

-----------------------------------------------------------------------------
(* Python values *)

NoChars == << >>

Absent == [t |-> "absent", i |-> 0, s |-> NoChars]

PyNone == [t |-> "none", i |-> 0, s |-> NoChars]

PyList == [t |-> "list", i |-> 0, s |-> NoChars]

PyElement == [t |-> "element", i |-> 0, s |-> NoChars]

PyInt(n) == [t |-> "int", i |-> n, s |-> NoChars]

PyBool(b) == [t |-> "bool", i |-> IF b THEN 1 ELSE 0, s |-> NoChars]

PyStr(chars) == [t |-> "str", i |-> 0, s |-> chars]

DigitChars == {"0", "1", "2", "3", "4", "5", "6", "7", "8", "9"}

DigitVal(c) ==
  CASE c = "0" -> 0 [] c = "1" -> 1 [] c = "2" -> 2 [] c = "3" -> 3
    [] c = "4" -> 4 [] c = "5" -> 5 [] c = "6" -> 6 [] c = "7" -> 7
    [] c = "8" -> 8 [] c = "9" -> 9

RECURSIVE DecimalValue(_)
DecimalValue(chars) ==
  IF Len(chars) = 0 THEN 0
  ELSE 10 * DecimalValue(SubSeq(chars, 1, Len(chars) - 1))
         + DigitVal(chars[Len(chars)])

IsDecimal(chars) ==
  /\ Len(chars) > 0
  /\ \A k \in 1..Len(chars) : chars[k] \in DigitChars

\* The builtin int(): [exc, val].  exc = "" when the conversion succeeds.
int(v) ==
  CASE v.t = "int" -> [exc |-> "", val |-> v.i]
    [] v.t = "bool" -> [exc |-> "", val |-> v.i]
    [] v.t = "str" ->
         IF IsDecimal(v.s) THEN [exc |-> "", val |-> DecimalValue(v.s)]
         ELSE [exc |-> "ValueError", val |-> 0]
    [] OTHER -> [exc |-> "TypeError", val |-> 0]

\* isinstance(v, bool)
IsBool(v) == v.t = "bool"

\* Exceptions that an "except StandardError" clause catches.
StandardError == {"KeyError", "TypeError", "ValueError", "AttributeError"}

-----------------------------------------------------------------------------
(* Dictionaries *)

EmptyDict == [k \in {} |-> Absent]

\* d[k]: [exc, val]
Subscript(d, k) ==
  IF k \in DOMAIN d THEN [exc |-> "", val |-> d[k]]
  ELSE [exc |-> "KeyError", val |-> PyNone]

\* d.get(k)
Get(d, k) == IF k \in DOMAIN d THEN d[k] ELSE PyNone

\* d with d[k] = v
SetItem(d, k, v) ==
  [x \in DOMAIN d \cup {k} |-> IF x = k THEN v ELSE d[x]]

\* A scaling block of app.yaml: missing, or a mapping.
NoBlock == [t |-> "absent", d |-> EmptyDict]

Block(d) == [t |-> "dict", d |-> d]

\* Truth value of app_yaml.get(<block>, None): None and {} are false.
BlockTruthy(b) == b.t = "dict" /\ DOMAIN b.d # {}

-----------------------------------------------------------------------------
(* Outcomes and the Version object *)

AppEngineConfigException == "AppEngineConfigException"

DEFAULT_SERVICE == "default"

NoScaling == [isset |-> FALSE, d |-> EmptyDict]

Scaling(d) == [isset |-> TRUE, d |-> d]

\* Version.__init__
Version(runtime, config_type) ==
  [runtime |-> IF runtime = "java7" THEN "java" ELSE runtime,
   config_type |-> config_type,
   service_id |-> "",
   threadsafe |-> PyNone,
   manual_scaling |-> NoScaling,
   automatic_scaling |-> NoScaling]

NoVersion == Version("", "")

Returned(version) ==
  [kind |-> "returned", exc |-> "", msg |-> "", version |-> version]

Raised(exc, msg) ==
  [kind |-> "raised", exc |-> exc, msg |-> msg, version |-> NoVersion]

NoResult == [kind |-> "none", exc |-> "", msg |-> "", version |-> NoVersion]

\* Messages of the AppEngineConfigException raised by the module.
MsgYamlRuntime == "Missing app.yaml element: runtime"
MsgYamlHandlers == "Missing app.yaml element: handlers"
MsgYamlService ==
  "Invalid app.yaml: If \"service\" is defined, \"module\" cannot be defined."
MsgYamlScalingBoth ==
  "Invalid app.yaml: If \"automatic_scaling\" is defined, \"manual_scaling\" cannot be defined."
MsgManualInvalid == "Invalid app.yaml: manual_scaling invalid."
MsgAutomaticInvalid == "Invalid app.yaml: automatic_scaling invalid."
MsgYamlNotInteger ==
  "Invalid app.yaml: value for automatic scaling option is not integer."
MsgYamlThreadsafeRequired ==
  "Invalid app.yaml: {} applications require the \"threadsafe\" element"
MsgYamlThreadsafeBool == "Invalid app.yaml: \"threadsafe\" must be a boolean"
MsgXmlService ==
  "Invalid appengine-web.xml: If \"service\" is defined, \"module\" cannot be defined."
MsgXmlScalingBoth ==
  "Invalid appengine-web.xml: If \"automatic-scaling\" is defined, \"manual-scaling\" cannot be defined."
MsgXmlNotInteger ==
  "Invalid appengine-web.xml: value for automatic scaling option is not integer."
MsgXmlThreadsafeMissing ==
  "Invalid appengine-web.xml: missing \"threadsafe\" element"
MsgXmlThreadsafeValue ==
  "Invalid appengine-web.xml: Invalid \"threadsafe\" value. It must be either \"true\" or \"false\"."
MsgInvalidYaml == "Invalid app.yaml: {}"
MsgInvalidXml == "Invalid appengine-web.xml: {}"
MsgUnableToRead == "Unable to read {}"
MsgNotFound == "Unable to find app.yaml or appengine-web.xml"

-----------------------------------------------------------------------------
(* Version.from_yaml *)

\* A name-valued key of app.yaml (runtime, service, module).  v = "" stands
\* for the values Python treats as false (None, '').
NoName == [present |-> FALSE, v |-> ""]

Name(v) == [present |-> TRUE, v |-> v]

\* One optional automatic-scaling element: skipped when None, else coerced
\* with int() and stored under key.  acc is [exc, d].
AddOptional(acc, value, key) ==
  IF acc.exc # "" \/ value.t = "none" THEN acc
  ELSE LET n == int(value)
       IN IF n.exc # "" THEN [exc |-> n.exc, d |-> acc.d]
          ELSE [exc |-> "", d |-> SetItem(acc.d, key, n.val)]

\* The dictionary literal of lines 100-103 and 197-199.
SchedulerSettings(min, max) ==
  [k \in {"standardSchedulerSettings"} |->
     [j \in {"minInstances", "maxInstances"} |->
        IF j = "minInstances" THEN min ELSE max]]

\* yaml_service without the fallback to DEFAULT_SERVICE.
yaml_service_no_default(version, doc) ==
  IF doc.service.present /\ doc.module.present
  THEN Raised(AppEngineConfigException, MsgYamlService)
  ELSE Returned([version EXCEPT !.service_id =
         IF doc.service.v # "" THEN doc.service.v ELSE doc.module.v])

\* service / module of app.yaml
yaml_service(version, doc) ==
  IF doc.service.present /\ doc.module.present
  THEN Raised(AppEngineConfigException, MsgYamlService)
  ELSE Returned([version EXCEPT !.service_id =
         IF doc.service.v # "" THEN doc.service.v
         ELSE IF doc.module.v # "" THEN doc.module.v
         ELSE DEFAULT_SERVICE])

\* The optional elements of automatic_scaling in app.yaml.
yaml_optional(version, block) ==
  LET a0 == [exc |-> "", d |-> version.automatic_scaling.d]
      a1 == AddOptional(a0, Get(block, "min_idle_instances"),
                        "minIdleInstances")
      a2 == AddOptional(a1, Get(block, "max_idle_instances"),
                        "maxIdleInstances")
      a3 == AddOptional(a2, Get(block, "max_concurrent_requests"),
                        "maxConcurrentRequests")
  IN IF a3.exc = "" THEN
       Returned([version EXCEPT !.automatic_scaling = Scaling(a3.d)])
     ELSE IF a3.exc = "ValueError" THEN
       Raised(AppEngineConfigException, MsgYamlNotInteger)
     ELSE Raised(a3.exc, "")

\* The manual_scaling branch of from_yaml.
yaml_manual(version, manual_scaling) ==
  LET item == Subscript(manual_scaling.d, "instances")
      n == IF item.exc # "" THEN [exc |-> item.exc, val |-> 0]
           ELSE int(item.val)
  IN IF n.exc \in StandardError THEN
       Raised(AppEngineConfigException, MsgManualInvalid)
     ELSE Returned([version EXCEPT !.manual_scaling =
            Scaling([k \in {"instances"} |-> n.val])])

\* The automatic_scaling branch of from_yaml.
yaml_automatic(version, automatic_scaling) ==
  LET imin == Subscript(automatic_scaling.d, "min_instances")
      imax == Subscript(automatic_scaling.d, "max_instances")
      nmin == IF imin.exc # "" THEN [exc |-> imin.exc, val |-> 0]
              ELSE int(imin.val)
      nmax == IF imax.exc # "" THEN [exc |-> imax.exc, val |-> 0]
              ELSE int(imax.val)
  IN IF nmin.exc \in StandardError \/ nmax.exc \in StandardError THEN
       Raised(AppEngineConfigException, MsgAutomaticInvalid)
     ELSE yaml_optional(
            [version EXCEPT !.automatic_scaling =
               Scaling(SchedulerSettings(nmin.val, nmax.val))],
            automatic_scaling.d)

\* yaml_scaling without the exclusivity test: each block that is defined is
\* translated.
yaml_scaling_unchecked(version, doc) ==
  LET s1 == IF BlockTruthy(doc.manual_scaling)
            THEN yaml_manual(version, doc.manual_scaling)
            ELSE Returned(version)
  IN IF s1.kind = "raised" \/ ~BlockTruthy(doc.automatic_scaling) THEN s1
     ELSE yaml_automatic(s1.version, doc.automatic_scaling)

\* manual_scaling / automatic_scaling of app.yaml
yaml_scaling(version, doc) ==
  LET automatic_scaling == doc.automatic_scaling
      manual_scaling == doc.manual_scaling
  IN IF BlockTruthy(automatic_scaling) /\ BlockTruthy(manual_scaling) THEN
       Raised(AppEngineConfigException, MsgYamlScalingBoth)
     ELSE IF BlockTruthy(manual_scaling) THEN
       yaml_manual(version, manual_scaling)
     ELSE IF BlockTruthy(automatic_scaling) THEN
       yaml_automatic(version, automatic_scaling)
     ELSE Returned(version)

\* yaml_threadsafe without the isinstance test.
yaml_threadsafe_unchecked(version, doc) ==
  IF version.runtime \in {"python27", "java"} THEN
    IF doc.threadsafe.t = "absent" THEN
      Raised(AppEngineConfigException, MsgYamlThreadsafeRequired)
    ELSE Returned([version EXCEPT !.threadsafe = doc.threadsafe])
  ELSE Returned(version)

\* threadsafe of app.yaml
yaml_threadsafe(version, doc) ==
  IF version.runtime \in {"python27", "java"} THEN
    IF doc.threadsafe.t = "absent" THEN
      Raised(AppEngineConfigException, MsgYamlThreadsafeRequired)
    ELSE IF ~IsBool(doc.threadsafe) THEN
      Raised(AppEngineConfigException, MsgYamlThreadsafeBool)
    ELSE Returned([version EXCEPT !.threadsafe = doc.threadsafe])
  ELSE Returned(version)

from_yaml(doc) ==
  IF ~doc.mapping THEN Raised("TypeError", "")
  ELSE IF ~doc.runtime.present THEN
    Raised(AppEngineConfigException, MsgYamlRuntime)
  ELSE IF ~doc.handlers THEN
    Raised(AppEngineConfigException, MsgYamlHandlers)
  ELSE
    LET s1 == yaml_service(Version(doc.runtime.v, "app.yaml"), doc)
        s2 == IF s1.kind = "raised" THEN s1
              ELSE yaml_scaling(s1.version, doc)
        s3 == IF s2.kind = "raised" THEN s2
              ELSE yaml_threadsafe(s2.version, doc)
    IN s3

-----------------------------------------------------------------------------
(* Version.from_xml *)

\* An element of appengine-web.xml as root.find returns it: missing (None), or
\* an element with its text (None when the element is empty).
NoElement == [t |-> "absent", text |-> PyNone]

Element(text) == [t |-> "element", text |-> text]

\* root.find(qname(name)) as a Python value: None or an Element object.
find(element) == IF element.t = "absent" THEN PyNone ELSE PyElement

\* block.findtext(qname(name)): None when there is no such child, else its
\* text ('' for an empty child).
findtext(d, name) == IF name \in DOMAIN d THEN d[name] ELSE PyNone

LowerChar(c) ==
  CASE c = "A" -> "a" []
       c = "B" -> "b" []
       c = "C" -> "c" []
       c = "D" -> "d" []
       c = "E" -> "e" []
       c = "F" -> "f" []
       c = "G" -> "g" []
       c = "H" -> "h" []
       c = "I" -> "i" []
       c = "J" -> "j" []
       c = "K" -> "k" []
       c = "L" -> "l" []
       c = "M" -> "m" []
       c = "N" -> "n" []
       c = "O" -> "o" []
       c = "P" -> "p" []
       c = "Q" -> "q" []
       c = "R" -> "r" []
       c = "S" -> "s" []
       c = "T" -> "t" []
       c = "U" -> "u" []
       c = "V" -> "v" []
       c = "W" -> "w" []
       c = "X" -> "x" []
       c = "Y" -> "y" []
       c = "Z" -> "z"
    [] OTHER -> c

\* str.lower()
lower(chars) == [k \in 1..Len(chars) |-> LowerChar(chars[k])]

\* One optional automatic-scaling element of appengine-web.xml: when guard is
\* not None, int(value) is stored under key in version.automatic_scaling.
\* acc is [exc, scaling].
XmlAddOptional(acc, guard, value, key) ==
  IF acc.exc # "" \/ guard.t = "none" THEN acc
  ELSE LET n == int(value)
       IN IF n.exc # "" THEN [exc |-> n.exc, scaling |-> acc.scaling]
          ELSE IF ~acc.scaling.isset THEN
            [exc |-> "TypeError", scaling |-> acc.scaling]
          ELSE [exc |-> "",
                scaling |-> Scaling(SetItem(acc.scaling.d, key, n.val))]

\* service / module of appengine-web.xml
xml_service(version, doc) ==
  IF doc.service.present /\ doc.module.present
  THEN Raised(AppEngineConfigException, MsgXmlService)
  ELSE LET s1 == IF doc.module.present THEN doc.module.v
                 ELSE version.service_id
           s2 == IF doc.service.present THEN doc.service.v ELSE s1
           s3 == IF s2 = "" THEN DEFAULT_SERVICE ELSE s2
       IN Returned([version EXCEPT !.service_id = s3])

\* manual-scaling / automatic-scaling of appengine-web.xml
xml_scaling(version, doc) ==
  LET automatic_scaling == doc.automatic_scaling
      manual_scaling == doc.manual_scaling
  IN IF automatic_scaling.t # "absent" /\ manual_scaling.t # "absent" THEN
       Raised(AppEngineConfigException, MsgXmlScalingBoth)
     ELSE IF manual_scaling.t # "absent" THEN
       LET n == int(findtext(manual_scaling.d, "instances"))
       IN IF n.exc \in StandardError THEN
            Raised(AppEngineConfigException, MsgManualInvalid)
          ELSE Returned([version EXCEPT !.manual_scaling =
                 Scaling([k \in {"instances"} |-> n.val])])
     ELSE IF automatic_scaling.t # "absent" THEN
       LET nmin == int(findtext(automatic_scaling.d, "min-instances"))
           nmax == int(findtext(automatic_scaling.d, "max-instances"))
       IN IF nmin.exc \in StandardError \/ nmax.exc \in StandardError THEN
            Raised(AppEngineConfigException, MsgAutomaticInvalid)
          ELSE Returned([version EXCEPT !.automatic_scaling =
                 Scaling(SchedulerSettings(nmin.val, nmax.val))])
     ELSE Returned(version)

\* The optional elements of automatic scaling in appengine-web.xml, looked
\* up on the document root.
xml_optional(version, doc) ==
  LET min_idle == find(doc.min_idle_instances)
      max_idle == find(doc.max_idle_instances)
      max_concurrent == find(doc.max_concurrent_requests)
      a0 == [exc |-> "", scaling |-> version.automatic_scaling]
      a1 == XmlAddOptional(a0, min_idle, min_idle, "minIdleInstances")
      a2 == XmlAddOptional(a1, max_idle, max_idle, "maxIdleInstances")
      a3 == XmlAddOptional(a2, max_idle, max_concurrent,
                           "maxConcurrentRequests")
  IN IF a3.exc = "" THEN
       Returned([version EXCEPT !.automatic_scaling = a3.scaling])
     ELSE IF a3.exc = "ValueError" THEN
       Raised(AppEngineConfigException, MsgXmlNotInteger)
     ELSE Raised(a3.exc, "")

\* threadsafe of appengine-web.xml
xml_threadsafe(version, doc) ==
  LET threadsafe_element == doc.threadsafe
  IN IF threadsafe_element.t = "absent" THEN
       Raised(AppEngineConfigException, MsgXmlThreadsafeMissing)
     ELSE IF threadsafe_element.text.t = "none" THEN
       Raised("AttributeError", "")
     ELSE IF lower(threadsafe_element.text.s)
               \notin {<<"t", "r", "u", "e">>, <<"f", "a", "l", "s", "e">>} THEN
       Raised(AppEngineConfigException, MsgXmlThreadsafeValue)
     ELSE Returned([version EXCEPT !.threadsafe =
            PyBool(lower(threadsafe_element.text.s) = <<"t", "r", "u", "e">>)])

from_xml(doc) ==
  LET runtime == IF doc.runtime.present THEN doc.runtime.v ELSE "java7"
      s1 == xml_service(Version(runtime, "appengine-web.xml"), doc)
      s2 == IF s1.kind = "raised" THEN s1 ELSE xml_scaling(s1.version, doc)
      s3 == IF s2.kind = "raised" THEN s2 ELSE xml_optional(s2.version, doc)
      s4 == IF s3.kind = "raised" THEN s3 ELSE xml_threadsafe(s3.version, doc)
  IN s4

-----------------------------------------------------------------------------
(* Parsers of the standard library and Version.from_contents *)

\* The parsed app.yaml: not a mapping at all (a scalar, a list, None), or the
\* keys this module reads.
YamlDoc(runtime, handlers, service, module, automatic, manual, threadsafe) ==
  [mapping |-> TRUE, runtime |-> runtime, handlers |-> handlers,
   service |-> service, module |-> module, automatic_scaling |-> automatic,
   manual_scaling |-> manual, threadsafe |-> threadsafe]

NonMappingDoc ==
  [mapping |-> FALSE, runtime |-> NoName, handlers |-> FALSE,
   service |-> NoName, module |-> NoName, automatic_scaling |-> NoBlock,
   manual_scaling |-> NoBlock, threadsafe |-> Absent]

\* The root element of appengine-web.xml: the children this module looks up.
XmlDoc(runtime, service, module, automatic, manual, idle1, idle2, conc, safe) ==
  [runtime |-> runtime, service |-> service, module |-> module,
   automatic_scaling |-> automatic, manual_scaling |-> manual,
   min_idle_instances |-> idle1, max_idle_instances |-> idle2,
   max_concurrent_requests |-> conc, threadsafe |-> safe]

EmptyRoot ==
  XmlDoc(NoName, NoName, NoName, NoBlock, NoBlock, NoElement, NoElement,
         NoElement, NoElement)

\* File contents, described by what each parser makes of them.
YamlText(doc) ==
  [yaml |-> [exc |-> "", doc |-> doc],
   xml |-> [exc |-> "ParseError", root |-> EmptyRoot]]

XmlText(xmlroot) ==
  [yaml |-> [exc |-> "YAMLError", doc |-> NonMappingDoc],
   xml |-> [exc |-> "", root |-> xmlroot]]

Garbage ==
  [yaml |-> [exc |-> "YAMLError", doc |-> NonMappingDoc],
   xml |-> [exc |-> "ParseError", root |-> EmptyRoot]]

\* yaml.safe_load
safe_load(text) == text.yaml

\* ElementTree.fromstring
fromstring(text) == text.xml

from_contents(text, name) ==
  IF name = "app.yaml" THEN
    LET loaded == safe_load(text)
    IN IF loaded.exc = "YAMLError" THEN
         Raised(AppEngineConfigException, MsgInvalidYaml)
       ELSE from_yaml(loaded.doc)
  ELSE
    LET parsed == fromstring(text)
    IN IF parsed.exc = "ParseError" THEN
         Raised(AppEngineConfigException, MsgInvalidXml)
       ELSE from_xml(parsed.root)

-----------------------------------------------------------------------------
(* Locating the configuration file *)

\* A path is the sequence of its segments (path.split('/')).
NoPath == << >>

RECURSIVE Shallowest(_, _)
Shallowest(best, candidates) ==
  IF candidates = << >> THEN best
  ELSE Shallowest(IF Len(Head(candidates)) < Len(best)
                  THEN Head(candidates) ELSE best,
                  Tail(candidates))

\* shortest_path_from_list returning the first candidate, whatever its depth.
shortest_path_from_list_first(name, names) ==
  LET candidates == SelectSeq(names, LAMBDA p : p[Len(p)] = name)
  IN IF candidates = << >> THEN NoPath ELSE Head(candidates)

\* utils.shortest_path_from_list: None (NoPath) or the shallowest candidate
\* whose last segment is name, the first such in list order.
shortest_path_from_list(name, names) ==
  LET candidates == SelectSeq(names, LAMBDA p : p[Len(p)] = name)
  IN IF candidates = << >> THEN NoPath
     ELSE Shallowest(Head(candidates), Tail(candidates))

\* utils.shortest_directory_path, over the files of the walked directory.
shortest_directory_path(name, walk) == shortest_path_from_list(name, walk)

\* locate_config taking the shallower of the two config files.
locate_config_shallowest(names) ==
  LET yaml_location == shortest_path_from_list("app.yaml", names)
      xml_location == shortest_path_from_list("appengine-web.xml", names)
  IN IF yaml_location # NoPath
        /\ (xml_location = NoPath \/ Len(yaml_location) <= Len(xml_location))
     THEN [file_name |-> "app.yaml", config_location |-> yaml_location]
     ELSE [file_name |-> "appengine-web.xml",
           config_location |-> xml_location]

\* The search of from_tar_gz and from_zip: app.yaml first, then
\* appengine-web.xml.
locate_config(names) ==
  LET yaml_location == shortest_path_from_list("app.yaml", names)
      xml_location == shortest_path_from_list("appengine-web.xml", names)
  IN IF yaml_location # NoPath THEN
       [file_name |-> "app.yaml", config_location |-> yaml_location]
     ELSE [file_name |-> "appengine-web.xml",
           config_location |-> xml_location]

\* The search of from_directory.
locate_directory_config(walk) ==
  LET yaml_location == shortest_directory_path("app.yaml", walk)
      xml_location == shortest_directory_path("appengine-web.xml", walk)
  IN IF yaml_location # NoPath THEN
       [file_name |-> "app.yaml", config_location |-> yaml_location]
     ELSE [file_name |-> "appengine-web.xml",
           config_location |-> xml_location]

\* Leaving a "with" block releases its handle.
with_exit(open_handles, handle) == open_handles \ {handle}

\* The read of from_tar_gz without its finally clause.
finally_close_missing(open_handles) == open_handles

\* The "finally: config_file.close()" of from_tar_gz.
finally_close(open_handles) == open_handles \ {"config_file"}

-----------------------------------------------------------------------------
(* Inputs *)

\* Longest archive member list / directory walk.
MaxMembers == 3

X == PyStr(<<"x">>)

YamlRuntimes == {NoName, Name("python27"), Name("java7"), Name("php")}

ServiceNames == {NoName, Name(""), Name("svc")}

ModuleNames == {NoName, Name(""), Name("mod")}

YamlThreadsafe == {Absent, PyBool(TRUE), PyBool(FALSE), PyInt(1),
                   PyStr(<<"t", "r", "u", "e">>)}

\* All dictionaries whose keys are among keys, each value drawn from
\* values[key].
Dicts(keys, values) ==
  UNION {{d \in [K -> UNION {values[k] : k \in keys}] :
            \A k \in K : d[k] \in values[k]} : K \in SUBSET keys}

ManualValues == [k \in {"instances"} |-> {PyInt(2), PyStr(<<"2">>), X}]

AutomaticKeys == {"min_instances", "max_instances", "min_idle_instances",
                  "max_idle_instances", "max_concurrent_requests"}

AutomaticValues ==
  [k \in AutomaticKeys |->
     CASE k = "min_instances" -> {PyInt(1), X}
       [] k = "max_instances" -> {PyInt(2), X}
       [] k = "min_idle_instances" -> {PyInt(0), X, PyList}
       [] k = "max_idle_instances" -> {PyInt(3), PyStr(<<"1", "0">>), X}
       [] k = "max_concurrent_requests" -> {PyInt(5), X, PyList}]

YamlManualBlocks ==
  {NoBlock} \cup {Block(d) : d \in Dicts({"instances"}, ManualValues)}

YamlAutomaticBlocks ==
  {NoBlock} \cup {Block(d) : d \in Dicts(AutomaticKeys, AutomaticValues)}

PlainAutomatic ==
  Block([k \in {"min_instances", "max_instances"} |->
           IF k = "min_instances" THEN PyInt(1) ELSE PyInt(2)])

\* Every scaling configuration under a few headers, and every header under a
\* few scaling configurations.
YamlDocs ==
  {YamlDoc(r, TRUE, NoName, NoName, a, m, t) :
          r \in {Name("python27"), Name("php")},
          a \in YamlAutomaticBlocks, m \in YamlManualBlocks,
          t \in {Absent, PyBool(TRUE)}}
    \cup {YamlDoc(r, h, s, m, a, NoBlock, t) :
          r \in YamlRuntimes, h \in BOOLEAN, s \in ServiceNames,
          m \in ModuleNames, a \in {NoBlock, PlainAutomatic},
          t \in YamlThreadsafe}

XmlRuntimes == {NoName, Name(""), Name("java"), Name("java8")}

XmlThreadsafe ==
  {NoElement, Element(PyNone), Element(X)}
  \cup {Element(PyStr(c)) : c \in {<<"t", "r", "u", "e">>,
                                  <<"T", "r", "u", "e">>,
                                  <<"F", "A", "L", "S", "E">>}}

XmlManualBlocks ==
  {NoBlock}
  \cup {Block(d) : d \in Dicts({"instances"},
          [k \in {"instances"} |-> {PyStr(<<"2">>), PyStr(NoChars), X}])}

XmlAutomaticBlocks ==
  {NoBlock}
  \cup {Block(d) : d \in Dicts({"min-instances", "max-instances"},
          [k \in {"min-instances", "max-instances"} |->
             IF k = "min-instances" THEN {PyStr(<<"1">>), X}
             ELSE {PyStr(<<"1", "2">>), X}])}

OptionalElements == {NoElement, Element(PyStr(<<"3">>))}

XmlDocs ==
  {XmlDoc(r, s, m, a, ms, i1, i2, c, t) :
     r \in XmlRuntimes, s \in ServiceNames, m \in {NoName, Name("mod")},
     a \in XmlAutomaticBlocks, ms \in XmlManualBlocks,
     i1 \in OptionalElements, i2 \in OptionalElements,
     c \in OptionalElements, t \in XmlThreadsafe}

FileNames == {"app.yaml", "appengine-web.xml"}

\* Documents found in files and archive members.
YamlSamples ==
  {NonMappingDoc}
  \cup {YamlDoc(Name("python27"), TRUE, NoName, NoName, a, NoBlock, t) :
          a \in {NoBlock, PlainAutomatic,
                 Block([k \in {"min_idle_instances"} |-> PyList])},
          t \in {Absent, PyBool(TRUE)}}

XmlSamples ==
  {XmlDoc(NoName, NoName, NoName, NoBlock, NoBlock, i1, NoElement, NoElement,
          t) : i1 \in OptionalElements,
               t \in {NoElement, Element(PyNone),
                      Element(PyStr(<<"t", "r", "u", "e">>))}}

\* What a file of the given name may hold.
ContentsFor(name) ==
  {Garbage} \cup (IF name = "app.yaml"
                  THEN {YamlText(d) : d \in YamlSamples}
                  ELSE {XmlText(r) : r \in XmlSamples})

Paths ==
  {<<"app.yaml">>, <<"a", "app.yaml">>, <<"b", "app.yaml">>,
   <<"a", "b", "app.yaml">>, <<"appengine-web.xml">>,
   <<"a", "appengine-web.xml">>, <<"a", "b">>}

NameLists == UNION {[1..n -> Paths] : n \in 0..MaxMembers}

-----------------------------------------------------------------------------
(* The entry points *)

Init ==
  /\ call = "none"
  /\ pc = "start"
  /\ app_yaml = NonMappingDoc
  /\ root = EmptyRoot
  /\ contents = Garbage
  /\ file_name = ""
  /\ name_list = << >>
  /\ config_location = NoPath
  /\ handles = {}
  /\ opened = {}
  /\ dispatched = ""
  /\ result = NoResult

\* Version.from_yaml(app_yaml)
FromYaml ==
  /\ pc = "start"
  /\ \E doc \in YamlDocs :
       /\ app_yaml' = doc
       /\ result' = from_yaml(doc)
  /\ call' = "from_yaml"
  /\ pc' = "done"
  /\ UNCHANGED <<root, contents, file_name, name_list, config_location,
                 handles, opened, dispatched>>

\* Version.from_xml(root)
FromXml ==
  /\ pc = "start"
  /\ \E doc \in XmlDocs :
       /\ root' = doc
       /\ result' = from_xml(doc)
  /\ call' = "from_xml"
  /\ pc' = "done"
  /\ UNCHANGED <<app_yaml, contents, file_name, name_list, config_location,
                 handles, opened, dispatched>>

\* Version.from_contents(contents, file_name)
FromContents ==
  /\ pc = "start"
  /\ \E name \in FileNames : \E text \in ContentsFor(name) :
       /\ file_name' = name
       /\ contents' = text
       /\ result' = from_contents(text, name)
  /\ call' = "from_contents"
  /\ pc' = "done"
  /\ UNCHANGED <<app_yaml, root, name_list, config_location, handles, opened,
                 dispatched>>

\* from_tar_gz: with tarfile.open(tar_location, 'r:gz') as tar
TarOpen ==
  /\ pc = "start"
  /\ call' = "from_tar_gz"
  /\ \/ /\ handles' = handles \cup {"tar"}
        /\ opened' = opened \cup {"tar"}
        /\ pc' = "tar_opened"
        /\ UNCHANGED result
     \/ /\ result' = Raised("IOError", "")
        /\ pc' = "done"
        /\ UNCHANGED <<handles, opened>>
  /\ UNCHANGED <<app_yaml, root, contents, file_name, name_list,
                 config_location, dispatched>>

\* from_tar_gz: the member names and the search for the config file
TarLocate ==
  /\ pc = "tar_opened"
  /\ \E names \in NameLists :
       LET found == locate_config(names)
       IN /\ name_list' = names
          /\ file_name' = found.file_name
          /\ config_location' = found.config_location
          /\ IF found.config_location = NoPath
             THEN /\ result' = Raised(AppEngineConfigException, MsgNotFound)
                  /\ handles' = with_exit(handles, "tar")
                  /\ pc' = "done"
             ELSE /\ pc' = "tar_located"
                  /\ UNCHANGED <<result, handles>>
  /\ UNCHANGED <<call, app_yaml, root, contents, opened, dispatched>>

\* from_tar_gz: config_file = tar.extractfile(config_location), which is
\* None for a member that is not a regular file
TarExtract ==
  /\ pc = "tar_located"
  /\ \/ /\ handles' = handles \cup {"config_file"}
        /\ opened' = opened \cup {"config_file"}
        /\ pc' = "tar_extracted"
        /\ UNCHANGED result
     \/ /\ result' = Raised("AttributeError", "")
        /\ handles' = with_exit(handles, "tar")
        /\ pc' = "done"
        /\ UNCHANGED opened
  /\ UNCHANGED <<call, app_yaml, root, contents, file_name, name_list,
                 config_location, dispatched>>

\* from_tar_gz: try: contents = config_file.read() finally: close()
TarRead ==
  /\ pc = "tar_extracted"
  /\ \/ /\ \E text \in ContentsFor(file_name) : contents' = text
        /\ handles' = finally_close(handles)
        /\ pc' = "tar_read"
        /\ UNCHANGED result
     \/ /\ result' = Raised("IOError", "")
        /\ handles' = with_exit(finally_close(handles), "tar")
        /\ pc' = "done"
        /\ UNCHANGED contents
  /\ UNCHANGED <<call, app_yaml, root, file_name, name_list, config_location,
                 opened, dispatched>>

\* from_tar_gz: return Version.from_contents(contents, file_name)
TarDispatch ==
  /\ pc = "tar_read"
  /\ dispatched' = file_name
  /\ result' = from_contents(contents, file_name)
  /\ handles' = with_exit(handles, "tar")
  /\ pc' = "done"
  /\ UNCHANGED <<call, app_yaml, root, contents, file_name, name_list,
                 config_location, opened>>

\* from_zip: with zipfile.ZipFile(zip_location) as zip_file
ZipOpen ==
  /\ pc = "start"
  /\ call' = "from_zip"
  /\ \/ /\ handles' = handles \cup {"zip_file"}
        /\ opened' = opened \cup {"zip_file"}
        /\ pc' = "zip_opened"
        /\ UNCHANGED result
     \/ /\ result' = Raised("IOError", "")
        /\ pc' = "done"
        /\ UNCHANGED <<handles, opened>>
  /\ UNCHANGED <<app_yaml, root, contents, file_name, name_list,
                 config_location, dispatched>>

\* from_zip: the entry names and the search for the config file
ZipLocate ==
  /\ pc = "zip_opened"
  /\ \E names \in NameLists :
       LET found == locate_config(names)
       IN /\ name_list' = names
          /\ file_name' = found.file_name
          /\ config_location' = found.config_location
          /\ IF found.config_location = NoPath
             THEN /\ result' = Raised(AppEngineConfigException, MsgNotFound)
                  /\ handles' = with_exit(handles, "zip_file")
                  /\ pc' = "done"
             ELSE /\ pc' = "zip_located"
                  /\ UNCHANGED <<result, handles>>
  /\ UNCHANGED <<call, app_yaml, root, contents, opened, dispatched>>

\* from_zip: with zip_file.open(config_location) as config_file
ZipOpenEntry ==
  /\ pc = "zip_located"
  /\ \/ /\ handles' = handles \cup {"config_file"}
        /\ opened' = opened \cup {"config_file"}
        /\ pc' = "zip_entry_opened"
        /\ UNCHANGED result
     \/ /\ result' = Raised("IOError", "")
        /\ handles' = with_exit(handles, "zip_file")
        /\ pc' = "done"
        /\ UNCHANGED opened
  /\ UNCHANGED <<call, app_yaml, root, contents, file_name, name_list,
                 config_location, dispatched>>

\* from_zip: contents = config_file.read(), then the inner with block ends
ZipRead ==
  /\ pc = "zip_entry_opened"
  /\ \/ /\ \E text \in ContentsFor(file_name) : contents' = text
        /\ handles' = with_exit(handles, "config_file")
        /\ pc' = "zip_read"
        /\ UNCHANGED result
     \/ /\ result' = Raised("IOError", "")
        /\ handles' = with_exit(with_exit(handles, "config_file"), "zip_file")
        /\ pc' = "done"
        /\ UNCHANGED contents
  /\ UNCHANGED <<call, app_yaml, root, file_name, name_list, config_location,
                 opened, dispatched>>

\* from_zip: return Version.from_contents(contents, file_name)
ZipDispatch ==
  /\ pc = "zip_read"
  /\ dispatched' = file_name
  /\ result' = from_contents(contents, file_name)
  /\ handles' = with_exit(handles, "zip_file")
  /\ pc' = "done"
  /\ UNCHANGED <<call, app_yaml, root, contents, file_name, name_list,
                 config_location, opened>>

\* from_directory: the search for the config file in the walked directory
DirLocate ==
  /\ pc = "start"
  /\ call' = "from_directory"
  /\ \E names \in NameLists :
       LET found == locate_directory_config(names)
       IN /\ name_list' = names
          /\ file_name' = found.file_name
          /\ config_location' = found.config_location
          /\ IF found.config_location = NoPath
             THEN /\ result' = Raised(AppEngineConfigException, MsgNotFound)
                  /\ pc' = "done"
             ELSE /\ pc' = IF found.file_name = "app.yaml"
                           THEN "yaml_file" ELSE "xml_file"
                  /\ UNCHANGED result
  /\ UNCHANGED <<app_yaml, root, contents, handles, opened, dispatched>>

\* from_yaml_file: with open(yaml_location) as yaml_file; IOError is caught
YamlFileOpen ==
  /\ pc \in {"start", "yaml_file"}
  /\ call' = IF pc = "start" THEN "from_yaml_file" ELSE call
  /\ \/ /\ handles' = handles \cup {"yaml_file"}
        /\ opened' = opened \cup {"yaml_file"}
        /\ pc' = "yaml_file_opened"
        /\ UNCHANGED result
     \/ /\ result' = Raised(AppEngineConfigException, MsgUnableToRead)
        /\ pc' = "done"
        /\ UNCHANGED <<handles, opened>>
  /\ UNCHANGED <<app_yaml, root, contents, file_name, name_list,
                 config_location, dispatched>>

\* from_yaml_file: app_yaml = yaml.safe_load(yaml_file)
YamlFileLoad ==
  /\ pc = "yaml_file_opened"
  /\ \/ \E text \in ContentsFor("app.yaml") :
          /\ contents' = text
          /\ IF safe_load(text).exc = "YAMLError"
             THEN /\ result' = Raised(AppEngineConfigException,
                                      MsgInvalidYaml)
                  /\ handles' = with_exit(handles, "yaml_file")
                  /\ pc' = "done"
                  /\ UNCHANGED app_yaml
             ELSE /\ app_yaml' = safe_load(text).doc
                  /\ pc' = "yaml_file_loaded"
                  /\ UNCHANGED <<result, handles>>
     \/ /\ result' = Raised(AppEngineConfigException, MsgUnableToRead)
        /\ handles' = with_exit(handles, "yaml_file")
        /\ pc' = "done"
        /\ UNCHANGED <<app_yaml, contents>>
  /\ UNCHANGED <<call, root, file_name, name_list, config_location, opened,
                 dispatched>>

\* from_yaml_file: return Version.from_yaml(app_yaml)
YamlFileParse ==
  /\ pc = "yaml_file_loaded"
  /\ result' = from_yaml(app_yaml)
  /\ handles' = with_exit(handles, "yaml_file")
  /\ pc' = "done"
  /\ UNCHANGED <<call, app_yaml, root, contents, file_name, name_list,
                 config_location, opened, dispatched>>

\* from_xml_file: ElementTree.parse, then Version.from_xml(tree.getroot())
XmlFileParse ==
  /\ pc \in {"start", "xml_file"}
  /\ call' = IF pc = "start" THEN "from_xml_file" ELSE call
  /\ \/ \E text \in ContentsFor("appengine-web.xml") :
          /\ contents' = text
          /\ IF fromstring(text).exc = "ParseError"
             THEN /\ result' = Raised(AppEngineConfigException, MsgInvalidXml)
                  /\ UNCHANGED root
             ELSE /\ root' = fromstring(text).root
                  /\ result' = from_xml(fromstring(text).root)
     \/ /\ result' = Raised(AppEngineConfigException, MsgInvalidXml)
        /\ UNCHANGED <<root, contents>>
  /\ pc' = "done"
  /\ UNCHANGED <<app_yaml, file_name, name_list, config_location, handles,
                 opened, dispatched>>

Next ==
  \/ FromYaml \/ FromXml \/ FromContents
  \/ TarOpen \/ TarLocate \/ TarExtract \/ TarRead \/ TarDispatch
  \/ ZipOpen \/ ZipLocate \/ ZipOpenEntry \/ ZipRead \/ ZipDispatch
  \/ DirLocate \/ YamlFileOpen \/ YamlFileLoad \/ YamlFileParse
  \/ XmlFileParse

Spec == Init /\ [][Next]_vars

-----------------------------------------------------------------------------
(* Properties *)

ConfigError == result.kind = "raised" /\ result.exc = AppEngineConfigException

LastSegment(path) == path[Len(path)]

HasMember(name) ==
  \E k \in 1..Len(name_list) : LastSegment(name_list[k]) = name

\* C1: a returned Version never has both manual_scaling and
\* automatic_scaling set.
C1_ScalingExclusive ==
  result.kind = "returned" =>
    ~(result.version.manual_scaling.isset
      /\ result.version.automatic_scaling.isset)

\* from_yaml returned a Version with automatic scaling for a document that
\* also carries a (empty) manual_scaling block.
C1_Witness ==
  /\ call = "from_yaml"
  /\ result.kind = "returned"
  /\ app_yaml.manual_scaling.t = "dict"
  /\ app_yaml.automatic_scaling.t = "dict"
  /\ result.version.automatic_scaling.isset
  /\ ~result.version.manual_scaling.isset

\* Everything in the document but its scaling blocks is valid.
RestValid ==
  \/ /\ call = "from_yaml"
     /\ app_yaml.mapping /\ app_yaml.runtime.present /\ app_yaml.handlers
     /\ ~(app_yaml.service.present /\ app_yaml.module.present)
     /\ app_yaml.threadsafe.t = "bool"
  \/ /\ call = "from_xml"
     /\ ~(root.service.present /\ root.module.present)
     /\ root.threadsafe.t = "element"
     /\ root.threadsafe.text.t = "str"
     /\ lower(root.threadsafe.text.s)
          \in {<<"t", "r", "u", "e">>, <<"f", "a", "l", "s", "e">>}

\* C2: a document, in either format, that defines both a manual and an
\* automatic scaling block (whatever they contain, the rest being valid) is
\* refused with the conflicting-fields error.
C2_BothBlocksRefused ==
  /\ (call = "from_yaml" /\ pc = "done" /\ RestValid
        /\ app_yaml.manual_scaling.t = "dict"
        /\ app_yaml.automatic_scaling.t = "dict")
       => (ConfigError /\ result.msg = MsgYamlScalingBoth)
  /\ (call = "from_xml" /\ pc = "done" /\ RestValid
        /\ root.manual_scaling.t = "dict"
        /\ root.automatic_scaling.t = "dict")
       => (ConfigError /\ result.msg = MsgXmlScalingBoth)

\* The service and module of the document being translated.
InputService == IF call = "from_yaml" THEN app_yaml.service ELSE root.service

InputModule == IF call = "from_yaml" THEN app_yaml.module ELSE root.module

ReachesService ==
  \/ /\ call = "from_yaml"
     /\ app_yaml.mapping /\ app_yaml.runtime.present /\ app_yaml.handlers
  \/ call = "from_xml"

\* C3 as stated: both service and module present is refused with the
\* conflicting-fields error; otherwise a returned Version has the service_id
\* of whichever is present, and DEFAULT_SERVICE exactly when neither is.
C3_ServiceAsStated ==
  (pc = "done" /\ call \in {"from_yaml", "from_xml"} /\ ReachesService) =>
    /\ (InputService.present /\ InputModule.present) =>
         (ConfigError /\ result.msg \in {MsgYamlService, MsgXmlService})
    /\ result.kind = "returned" =>
         /\ InputService.present => result.version.service_id = InputService.v
         /\ InputModule.present => result.version.service_id = InputModule.v
         /\ (result.version.service_id = DEFAULT_SERVICE)
              <=> (~InputService.present /\ ~InputModule.present)

\* C3 amended: both service and module present is refused with the
\* conflicting-fields error; otherwise a returned Version has the service_id
\* of whichever is present when that value is not empty, and DEFAULT_SERVICE
\* when neither is present or the one present is empty.
C3_ServiceResolved ==
  (pc = "done" /\ call \in {"from_yaml", "from_xml"} /\ ReachesService) =>
    /\ (InputService.present /\ InputModule.present) =>
         (ConfigError /\ result.msg \in {MsgYamlService, MsgXmlService})
    /\ result.kind = "returned" =>
         LET given == IF InputService.present THEN InputService.v
                      ELSE InputModule.v
         IN result.version.service_id =
              IF given # "" THEN given ELSE DEFAULT_SERVICE

\* from_yaml returned the default service for a document whose service key
\* is present but empty.
C3_Witness ==
  /\ call = "from_yaml"
  /\ result.kind = "returned"
  /\ app_yaml.service.present
  /\ app_yaml.service.v = ""
  /\ result.version.service_id = DEFAULT_SERVICE

\* C4: a returned Version whose runtime requires threadsafe has a boolean
\* threadsafe; an app.yaml with such a runtime that is valid but for its
\* threadsafe key fails with the missing-element error when the key is
\* omitted and with the must-be-boolean error when its value is not a bool.
C4_Threadsafe ==
  /\ (result.kind = "returned"
        /\ result.version.runtime \in {"python27", "java"})
       => IsBool(result.version.threadsafe)
  /\ (call = "from_yaml" /\ pc = "done"
        /\ app_yaml.runtime.v \in {"python27", "java", "java7"}
        /\ from_yaml([app_yaml EXCEPT !.threadsafe = PyBool(TRUE)]).kind
             = "returned")
       => /\ app_yaml.threadsafe.t = "absent" =>
               (ConfigError /\ result.msg = MsgYamlThreadsafeRequired)
          /\ app_yaml.threadsafe.t \notin {"absent", "bool"} =>
               (ConfigError /\ result.msg = MsgYamlThreadsafeBool)

\* from_yaml refused a java7 document whose threadsafe is the number 1.
C4_Witness ==
  /\ call = "from_yaml"
  /\ app_yaml.runtime.v = "java7"
  /\ app_yaml.threadsafe = PyInt(1)
  /\ ConfigError
  /\ result.msg = MsgYamlThreadsafeBool

\* The optional automatic-scaling values supplied on input, by the key they
\* are stored under.
SuppliedOptional ==
  IF call = "from_yaml"
  THEN {k \in {"minIdleInstances", "maxIdleInstances",
               "maxConcurrentRequests"} :
          LET key == CASE k = "minIdleInstances" -> "min_idle_instances"
                       [] k = "maxIdleInstances" -> "max_idle_instances"
                       [] OTHER -> "max_concurrent_requests"
          IN key \in DOMAIN app_yaml.automatic_scaling.d}
  ELSE {k \in {"minIdleInstances", "maxIdleInstances",
               "maxConcurrentRequests"} :
          LET element == CASE k = "minIdleInstances" -> root.min_idle_instances
                           [] k = "maxIdleInstances" -> root.max_idle_instances
                           [] OTHER -> root.max_concurrent_requests
          IN element.t = "element"}

\* C5: the automatic_scaling of a returned Version has minInstances and
\* maxInstances, and holds each optional sub-field if and only if its value
\* was supplied on input.
C5_AutomaticScalingFields ==
  (call \in {"from_yaml", "from_xml"} /\ result.kind = "returned"
     /\ result.version.automatic_scaling.isset) =>
    LET d == result.version.automatic_scaling.d
    IN /\ "standardSchedulerSettings" \in DOMAIN d
       /\ DOMAIN d["standardSchedulerSettings"]
            = {"minInstances", "maxInstances"}
       /\ DOMAIN d \ {"standardSchedulerSettings"} = SuppliedOptional

\* C6: from_yaml, from_xml and from_contents end either with a Version or
\* with AppEngineConfigException; no other exception reaches the caller.
C6_OnlyConfigErrors ==
  (pc = "done" /\ call \in {"from_yaml", "from_xml", "from_contents"}) =>
    (result.kind = "returned" \/ ConfigError)

\* The archive has been opened and its member names searched.
Located ==
  /\ call \in {"from_tar_gz", "from_zip"}
  /\ opened # {}
  /\ pc \notin {"start", "tar_opened", "zip_opened"}

NotFound == ConfigError /\ result.msg = MsgNotFound

\* C7: from_tar_gz and from_zip continue with, and call from_contents with,
\* "app.yaml" whenever a member is named app.yaml, with "appengine-web.xml"
\* only when none is but a member is named appengine-web.xml, and otherwise
\* fail with the not-found error without extracting a member.
C7_ArchiveDispatch ==
  Located =>
    IF HasMember("app.yaml") THEN
      /\ file_name = "app.yaml"
      /\ LastSegment(config_location) = "app.yaml"
      /\ dispatched \in {"", "app.yaml"}
      /\ pc = "done" /\ "config_file" \notin opened => ~NotFound
    ELSE IF HasMember("appengine-web.xml") THEN
      /\ file_name = "appengine-web.xml"
      /\ LastSegment(config_location) = "appengine-web.xml"
      /\ dispatched \in {"", "appengine-web.xml"}
      /\ pc = "done" /\ "config_file" \notin opened => ~NotFound
    ELSE
      /\ pc = "done"
      /\ NotFound
      /\ "config_file" \notin opened
      /\ dispatched = ""

\* from_contents was called with "app.yaml" for an archive that holds
\* appengine-web.xml at its root and app.yaml one level down.
C7_Witness ==
  /\ call \in {"from_tar_gz", "from_zip"}
  /\ dispatched = "app.yaml"
  /\ \E k \in 1..Len(name_list) : name_list[k] = <<"appengine-web.xml">>
  /\ \A k \in 1..Len(name_list) :
       LastSegment(name_list[k]) = "app.yaml" => Len(name_list[k]) > 1

\* The member names or walked files have been searched.
Searched ==
  /\ call \in {"from_tar_gz", "from_zip", "from_directory"}
  /\ pc \notin {"start", "tar_opened", "zip_opened"}

\* C8: the path found for a name is a candidate whose last segment is the
\* name, no candidate with that last segment has fewer segments, none of
\* equal depth comes earlier in the list, and nothing is found exactly
\* when no candidate has that last segment.
C8_ShortestPath ==
  Searched =>
    \A name \in FileNames :
      LET found == IF call = "from_directory"
                   THEN shortest_directory_path(name, name_list)
                   ELSE shortest_path_from_list(name, name_list)
          matches == {k \in 1..Len(name_list) :
                        LastSegment(name_list[k]) = name}
      IN /\ (found = NoPath) <=> (matches = {})
         /\ name = file_name => config_location = found
         /\ found # NoPath =>
              \E k \in matches :
                /\ name_list[k] = found
                /\ \A j \in matches :
                     /\ Len(name_list[k]) <= Len(name_list[j])
                     /\ (Len(name_list[j]) = Len(name_list[k]) /\ j < k)
                          => name_list[j] = found

\* a/b/app.yaml is listed before app.yaml and the root-level app.yaml is
\* the one chosen.
C8_Witness ==
  /\ Searched
  /\ Len(name_list) >= 2
  /\ name_list[1] = <<"a", "b", "app.yaml">>
  /\ name_list[2] = <<"app.yaml">>
  /\ config_location = <<"app.yaml">>

\* The field a message names, if any.
FieldNamed(msg) ==
  CASE msg = MsgManualInvalid -> "manual_scaling"
    [] msg = MsgAutomaticInvalid -> "automatic_scaling"
    [] msg \in {MsgYamlRuntime} -> "runtime"
    [] msg \in {MsgYamlHandlers} -> "handlers"
    [] msg \in {MsgYamlThreadsafeRequired, MsgYamlThreadsafeBool,
                MsgXmlThreadsafeMissing, MsgXmlThreadsafeValue} -> "threadsafe"
    [] OTHER -> ""

\* The required element of the automatic scaling block that is missing or
\* not an integer: min first, as the code evaluates them.
InputAutomatic ==
  IF call = "from_yaml" THEN app_yaml.automatic_scaling
  ELSE root.automatic_scaling

InputManual ==
  IF call = "from_yaml" THEN app_yaml.manual_scaling ELSE root.manual_scaling

BadRequired ==
  LET d == InputAutomatic.d
      kmin == IF call = "from_yaml" THEN "min_instances" ELSE "min-instances"
      kmax == IF call = "from_yaml" THEN "max_instances" ELSE "max-instances"
  IN {k \in {kmin, kmax} : k \notin DOMAIN d \/ int(d[k]).exc # ""}

\* C9: a document with only an automatic scaling block whose min_instances
\* or max_instances is absent or not an integer is refused with the
\* invalid-config error, and the error names the offending field.
C9_RequiredBoundsRefused ==
  (pc = "done" /\ call \in {"from_yaml", "from_xml"} /\ RestValid
     /\ InputAutomatic.t = "dict" /\ InputManual.t = "absent"
     /\ BadRequired # {}) =>
    /\ ConfigError
    /\ result.msg = MsgAutomaticInvalid
    /\ FieldNamed(result.msg) \in BadRequired

\* C10: when from_tar_gz, from_zip or from_yaml_file (or any other entry
\* point) has returned or raised, no handle it opened is still open.
C10_HandlesReleased ==
  /\ handles \subseteq opened
  /\ pc = "done" => handles = {}

\* from_tar_gz opened the archive and the member, the translator refused
\* the contents, and both handles are closed.
C10_Witness ==
  /\ call = "from_tar_gz"
  /\ pc = "done"
  /\ opened = {"tar", "config_file"}
  /\ dispatched # ""
  /\ ConfigError
  /\ handles = {}

====
